---- MODULE Spec2Model ----
(***************************************************************************)
(* web-blocker.py: the resolve-ips pipeline (get_ips, resolve_domain and   *)
(* the ThreadPoolExecutor that runs the probes), the blocklist fetcher     *)
(* (fetch_blocklist) and the command line front end (main).                *)
(*                                                                         *)
(* Domains and DNS server addresses are TLA+ strings.  Text whose          *)
(* characters the program looks at (resolved addresses, which are sorted   *)
(* as strings, and the downloaded blocklist, which is split into lines and *)
(* tokens) is a tuple of one-character strings.                            *)
(***************************************************************************)
EXTENDS Naturals, Integers, Sequences, FiniteSets, TLC

VARIABLES
    args,             \* argparse namespace: [get_ips, list]
    dns,              \* the DNS world: outcome of resolver.resolve per (domain, server)
    http,             \* the HTTP world: outcome of requests.get / raise_for_status
    pc,               \* position of the main thread
    domains_to_check, \* get_ips: the expanded domain set
    order,            \* iteration order of domains_to_check (a Python set)
    futures,          \* future_to_domain, in insertion order
    queue,            \* executor work queue: indices of futures not yet started
    next_future,      \* get_ips: index of the future the collecting loop is at
    all_ips,          \* get_ips: the shared result set
    ips,              \* main: value returned by get_ips
    sites,            \* main: value returned by fetch_blocklist
    stdout,           \* strings printed to standard output, one per print call
    stderr,           \* diagnostics printed to standard error, one per print call
    exit_code         \* process exit status, NoExit while the process runs

vars == <<args, dns, http, pc, domains_to_check, order, futures, queue,
          next_future, all_ips, ips, sites, stdout, stderr, exit_code>>

None == "None"
NoExit == "running"

(***************************************************************************)
(* Bounds of the model.                                                    *)
(***************************************************************************)
\* the pool is built with max_workers=15; the model runs a pool scaled to
\* its task count, so that tasks do wait in the queue
max_workers == 2
\* number of text lines of a downloaded blocklist
MaxLines == 3
\* number of base domains given to the expander on its own
MaxSites == 3

(***************************************************************************)
(* Configuration tables of the program.                                    *)
(***************************************************************************)
BLOCKLIST_URLS ==
    [easylist |-> "https://easylist.to/easylist/easylist.txt",
     peterlowe |-> "https://pgl.yoyo.org/adservers/serverlist.php?format=hosts"]

\* the first two of the twelve configured public resolvers
PUBLIC_DNS == <<"8.8.8.8", "8.8.4.4">>

common_prefixes == <<"www", "api", "m", "svc">>

\* the prefixes the modelled pool run expands with: the first of common_prefixes
PoolPrefixes == SubSeq(common_prefixes, 1, 1)

(***************************************************************************)
(* Python strings: ordering.                                               *)
(***************************************************************************)
\* code point of a character
Ord(c) ==
    CASE c = "\t" -> 9  [] c = "\n" -> 10 [] c = " " -> 32 [] c = "#" -> 35
      [] c = "." -> 46 [] c = "0" -> 48 [] c = "1" -> 49 [] c = "2" -> 50
      [] c = "3" -> 51 [] c = "4" -> 52 [] c = "5" -> 53 [] c = "6" -> 54
      [] c = "7" -> 55 [] c = "8" -> 56 [] c = "9" -> 57 [] c = "a" -> 97
      [] c = "b" -> 98 [] c = "c" -> 99 [] c = "d" -> 100 [] c = "m" -> 109
      [] c = "o" -> 111 [] c = "x" -> 120

MinLen(a, b) == IF Len(a) < Len(b) THEN Len(a) ELSE Len(b)

\* variant of StrLess: the shorter string first, ties by character (for
\* dotted quads of one-digit and two-digit parts, their numeric order)
StrLessShortlex(a, b) ==
    \/ Len(a) < Len(b)
    \/ /\ Len(a) = Len(b)
       /\ \E i \in 1..Len(a) :
             /\ \A j \in 1..(i - 1) : a[j] = b[j]
             /\ Ord(a[i]) < Ord(b[i])

\* a < b on Python str: the first differing character decides, a proper prefix
\* is smaller
StrLess(a, b) ==
    \/ \E i \in 1..MinLen(a, b) :
          /\ \A j \in 1..(i - 1) : a[j] = b[j]
          /\ Ord(a[i]) < Ord(b[i])
    \/ /\ Len(a) < Len(b)
       /\ \A j \in 1..Len(a) : a[j] = b[j]

\* list.insert of x before the first element that is not smaller than x
RECURSIVE InsertSorted(_, _)
InsertSorted(x, s) ==
    IF s = <<>> THEN <<x>>
    ELSE IF StrLess(Head(s), x) THEN <<Head(s)>> \o InsertSorted(x, Tail(s))
    ELSE <<x>> \o s

\* sorted(S) of a set of strings
RECURSIVE sorted(_)
sorted(S) ==
    IF S = {} THEN <<>>
    ELSE LET x == CHOOSE y \in S : TRUE
         IN  InsertSorted(x, sorted(S \ {x}))

\* sep.join(list)
RECURSIVE join(_, _)
join(sep, list) ==
    IF list = <<>> THEN <<>>
    ELSE IF Len(list) = 1 THEN list[1]
    ELSE list[1] \o sep \o join(sep, Tail(list))

\* str.startswith
startswith(line, prefix) ==
    /\ Len(line) >= Len(prefix)
    /\ SubSeq(line, 1, Len(prefix)) = prefix

\* str.splitlines: a line ends at a line break; a final line break opens no
\* further line
RECURSIVE SplitLinesFrom(_, _, _)
SplitLinesFrom(text, cur, out) ==
    IF text = <<>> THEN (IF cur = <<>> THEN out ELSE Append(out, cur))
    ELSE IF Head(text) = "\n" THEN SplitLinesFrom(Tail(text), <<>>, Append(out, cur))
    ELSE SplitLinesFrom(Tail(text), Append(cur, Head(text)), out)

splitlines(text) == SplitLinesFrom(text, <<>>, <<>>)

isspace(c) == c \in {" ", "\t", "\n"}

\* str.split(): the maximal runs of non-whitespace characters
RECURSIVE SplitFrom(_, _, _)
SplitFrom(line, cur, out) ==
    IF line = <<>> THEN (IF cur = <<>> THEN out ELSE Append(out, cur))
    ELSE IF isspace(Head(line))
         THEN SplitFrom(Tail(line), <<>>, IF cur = <<>> THEN out ELSE Append(out, cur))
    ELSE SplitFrom(Tail(line), Append(cur, Head(line)), out)

split(line) == SplitFrom(line, <<>>, <<>>)

(***************************************************************************)
(* The DNS world.                                                          *)
(***************************************************************************)
IP_A == <<"9", ".", "9", ".", "9", ".", "9">>
IP_B == <<"1", "0", ".", "0", ".", "0", ".", "1">>
IP_C == <<"1", "0", ".", "0", ".", "0", ".", "1", "0">>

\* what resolver.resolve(domain, "A") does: it raises (timeout, NXDOMAIN,
\* unreachable server, malformed response) or yields the answer's addresses
Raises == [raises |-> TRUE, addresses |-> {}]
Answer(S) == [raises |-> FALSE, addresses |-> S]
QueryOutcomes == {Raises, Answer({}), Answer({IP_A}), Answer({IP_B, IP_C})}

\* command lines of a resolve-ips run
ArgSites == {<<"a.com">>}

\* base domains and command lines the expander is run on
BaseDomains == {"a.com", "www.a.com", "b.org", "api.b.org"}

RECURSIVE SeqsUpTo(_, _)
SeqsUpTo(S, n) ==
    IF n = 0 THEN {<<>>}
    ELSE LET shorter == SeqsUpTo(S, n - 1)
         IN  shorter \cup {Append(q, x) : q \in shorter, x \in S}

(***************************************************************************)
(* The HTTP world.                                                         *)
(***************************************************************************)
SENTINEL == <<"1", "2", "7", ".", "0", ".", "0", ".", "1">>

HOST_A == <<"a", ".", "x">>
HOST_B == <<"b", ".", "x">>

\* lines a downloaded blocklist is made of
LineSamples ==
    { SENTINEL \o <<" ">> \o HOST_A,                  \* 127.0.0.1 a.x
      SENTINEL \o <<"\t">> \o HOST_B \o <<" ", "#">>,  \* 127.0.0.1<TAB>b.x #
      SENTINEL,                                       \* 127.0.0.1
      SENTINEL \o <<"0", " ">> \o HOST_B,              \* 127.0.0.10 b.x
      <<" ">> \o SENTINEL \o <<" ">> \o HOST_A,        \* (blank)127.0.0.1 a.x
      <<"0", ".", "0", ".", "0", ".", "0", " ">> \o HOST_A,   \* 0.0.0.0 a.x
      <<"#", " ", "c">>,                              \* # c
      <<>> }                                          \* empty line

Texts == {join(<<"\n">>, ls) : ls \in SeqsUpTo(LineSamples, MaxLines)}

\* what requests.get(url, timeout=10) and response.raise_for_status() do: one
\* of them raises, or the response text is available
HttpOutcomes ==
    {[error |-> e, text |-> <<>>] : e \in {"ConnectionError", "HTTPError"}}
        \cup {[error |-> None, text |-> t] : t \in Texts}

NoHttp == [error |-> None, text |-> <<>>]

(***************************************************************************)
(* resolve_domain                                                          *)
(***************************************************************************)
\* outcome of a call: the returned set, or an exception leaving the function
Returned(S) == [raised |-> FALSE, value |-> S]
Raised == [raised |-> TRUE, value |-> {}]

\* variant of resolve_domain without the try: the exception leaves the function
resolve_domain_raising(domain, dns_server) ==
    LET answers == dns[<<domain, dns_server>>]
    IN  IF answers.raises
        THEN Raised
        ELSE Returned(answers.addresses)

\* (building the Resolver and setting its nameservers, before the try, is
\* taken to succeed; the query is the step that can fail)
resolve_domain(domain, dns_server) ==
    LET answers == dns[<<domain, dns_server>>]
    IN  IF answers.raises
        THEN Returned({})                 \* except Exception: pass
        ELSE Returned(answers.addresses)

(***************************************************************************)
(* get_ips: domain expansion                                               *)
(***************************************************************************)
\* variant of Variations: the dot is left out
VariationsNoDot(site, prefixes) ==
    {prefixes[i] \o site : i \in 1..Len(prefixes)}

Variations(site, prefixes) ==
    {prefixes[i] \o "." \o site : i \in 1..Len(prefixes)}

\* the loop over sites, adding each site and its variations to the set
RECURSIVE ExpandInto(_, _, _)
ExpandInto(acc, site_list, prefixes) ==
    IF site_list = <<>> THEN acc
    ELSE ExpandInto(acc \cup {Head(site_list)} \cup Variations(Head(site_list), prefixes),
                    Tail(site_list), prefixes)

Expand(site_list, prefixes) == ExpandInto({}, site_list, prefixes)

\* all orders in which a set can be iterated
Orders(S) ==
    {s \in [1..Cardinality(S) -> S] : \A i, j \in 1..Cardinality(S) : i # j => s[i] # s[j]}

(***************************************************************************)
(* Initial state: a command line and the outcomes the network will give.  *)
(***************************************************************************)
Probes(site_list) == Expand(site_list, PoolPrefixes) \X {PUBLIC_DNS[i] : i \in 1..Len(PUBLIC_DNS)}

InitLocals ==
    /\ pc = "main"
    /\ domains_to_check = {}
    /\ order = <<>>
    /\ futures = <<>>
    /\ queue = <<>>
    /\ next_future = 1
    /\ all_ips = {}
    /\ ips = {}
    /\ sites = <<>>
    /\ stdout = <<>>
    /\ stderr = <<>>
    /\ exit_code = NoExit

ListNames == {"easylist", "peterlowe"}

\* --get-ips given (with or without --list)
InitGetIps ==
    /\ \E s \in ArgSites, l \in {None, "easylist"} : args = [get_ips |-> s, list |-> l]
    /\ dns \in [Probes(args.get_ips) -> QueryOutcomes]
    /\ http = NoHttp

\* --list given alone
InitList ==
    /\ \E l \in ListNames : args = [get_ips |-> None, list |-> l]
    /\ dns = <<>>
    /\ http \in HttpOutcomes

\* no option given
InitNone ==
    /\ args = [get_ips |-> None, list |-> None]
    /\ dns = <<>>
    /\ http = NoHttp

Init == (InitGetIps \/ InitList \/ InitNone) /\ InitLocals

(***************************************************************************)
(* main, resolve-ips branch                                                *)
(***************************************************************************)
\* main: args.get_ips is given, get_ips(args.get_ips) is called
MainGetIps ==
    /\ pc = "main"
    /\ args.get_ips # None
    /\ pc' = "expand"
    /\ UNCHANGED <<args, dns, http, domains_to_check, order, futures, queue,
                   next_future, all_ips, ips, sites, stdout, stderr, exit_code>>

\* get_ips: builds domains_to_check; the set is then iterated in some order
GetIpsExpand ==
    /\ pc = "expand"
    /\ domains_to_check' = Expand(args.get_ips, PoolPrefixes)
    /\ order' \in Orders(domains_to_check')
    /\ all_ips' = {}
    /\ pc' = "submit"
    /\ UNCHANGED <<args, dns, http, futures, queue, next_future, ips, sites,
                   stdout, stderr, exit_code>>

\* the (domain, dns_server) pair of the k-th executor.submit of the comprehension
TaskAt(k) ==
    [domain |-> order[((k - 1) \div Len(PUBLIC_DNS)) + 1],
     dns_server |-> PUBLIC_DNS[((k - 1) % Len(PUBLIC_DNS)) + 1]]

NumTasks == Len(order) * Len(PUBLIC_DNS)

NewFuture(task) ==
    [domain |-> task.domain, dns_server |-> task.dns_server,
     state |-> "PENDING", raised |-> FALSE, value |-> {}]

\* get_ips: one executor.submit of the dict comprehension
GetIpsSubmit ==
    /\ pc = "submit"
    /\ Len(futures) < NumTasks
    /\ futures' = Append(futures, NewFuture(TaskAt(Len(futures) + 1)))
    /\ queue' = Append(queue, Len(futures) + 1)
    /\ UNCHANGED <<args, dns, http, pc, domains_to_check, order, next_future,
                   all_ips, ips, sites, stdout, stderr, exit_code>>

\* get_ips: the comprehension is complete, the collecting loop starts
GetIpsSubmitted ==
    /\ pc = "submit"
    /\ Len(futures) = NumTasks
    /\ next_future' = 1
    /\ pc' = "collect"
    /\ UNCHANGED <<args, dns, http, domains_to_check, order, futures, queue,
                   all_ips, ips, sites, stdout, stderr, exit_code>>

Running == {i \in 1..Len(futures) : futures[i].state = "RUNNING"}

\* variant of WorkerStart: a thread is started for every queued item
WorkerStartUnbounded ==
    /\ queue # <<>>
    /\ futures' = [futures EXCEPT ![Head(queue)].state = "RUNNING"]
    /\ queue' = Tail(queue)
    /\ UNCHANGED <<args, dns, http, pc, domains_to_check, order, next_future,
                   all_ips, ips, sites, stdout, stderr, exit_code>>

\* a pool thread takes the oldest work item off the queue
WorkerStart ==
    /\ queue # <<>>
    /\ Cardinality(Running) < max_workers
    /\ futures' = [futures EXCEPT ![Head(queue)].state = "RUNNING"]
    /\ queue' = Tail(queue)
    /\ UNCHANGED <<args, dns, http, pc, domains_to_check, order, next_future,
                   all_ips, ips, sites, stdout, stderr, exit_code>>

\* variant of WorkerFinish: a probe whose query failed is queued again
WorkerFinishRetry(i) ==
    /\ futures[i].state = "RUNNING"
    /\ LET r == resolve_domain(futures[i].domain, futures[i].dns_server)
       IN  IF dns[<<futures[i].domain, futures[i].dns_server>>].raises
           THEN /\ futures' = [futures EXCEPT ![i].state = "PENDING"]
                /\ queue' = Append(queue, i)
           ELSE /\ futures' = [futures EXCEPT ![i].state = "FINISHED",
                                              ![i].raised = r.raised,
                                              ![i].value = r.value]
                /\ UNCHANGED queue
    /\ UNCHANGED <<args, dns, http, pc, domains_to_check, order,
                   next_future, all_ips, ips, sites, stdout, stderr, exit_code>>

\* variant of WorkerFinish: the pool thread adds its addresses to all_ips itself
WorkerFinishSharedWrite(i) ==
    /\ futures[i].state = "RUNNING"
    /\ LET r == resolve_domain(futures[i].domain, futures[i].dns_server)
       IN  /\ futures' = [futures EXCEPT ![i].state = "FINISHED",
                                         ![i].raised = r.raised,
                                         ![i].value = r.value]
           /\ all_ips' = all_ips \cup r.value
    /\ UNCHANGED <<args, dns, http, pc, domains_to_check, order, queue,
                   next_future, ips, sites, stdout, stderr, exit_code>>

\* variant of WorkerFinish: a query that fails never returns
WorkerFinishHangs(i) ==
    /\ futures[i].state = "RUNNING"
    /\ ~dns[<<futures[i].domain, futures[i].dns_server>>].raises
    /\ LET r == resolve_domain(futures[i].domain, futures[i].dns_server)
       IN  futures' = [futures EXCEPT ![i].state = "FINISHED",
                                      ![i].raised = r.raised,
                                      ![i].value = r.value]
    /\ UNCHANGED <<args, dns, http, pc, domains_to_check, order, queue,
                   next_future, all_ips, ips, sites, stdout, stderr, exit_code>>

\* a pool thread finishes resolve_domain and sets the future's result or exception
WorkerFinish(i) ==
    /\ futures[i].state = "RUNNING"
    /\ LET r == resolve_domain(futures[i].domain, futures[i].dns_server)
       IN  futures' = [futures EXCEPT ![i].state = "FINISHED",
                                      ![i].raised = r.raised,
                                      ![i].value = r.value]
    /\ UNCHANGED <<args, dns, http, pc, domains_to_check, order, queue,
                   next_future, all_ips, ips, sites, stdout, stderr, exit_code>>

\* variant of update: assignment
update_replace(S, T) == T

\* set.update
update(S, T) == S \cup T

\* variant of ResultReady: the result is read without waiting
ResultReadyNoWait(future) == TRUE

\* future.result() returns or raises once the future is finished, and blocks
\* until then
ResultReady(future) == future.state = "FINISHED"

Warning(domain, dns_server) ==
    [text |-> "Warning: Could not resolve", domain |-> domain, dns_server |-> dns_server]

\* variant of GetIpsCollect: the loop is left at the first empty result
GetIpsCollectFailFast ==
    /\ pc = "collect"
    /\ next_future <= Len(futures)
    /\ ResultReady(futures[next_future])
    /\ all_ips' = update(all_ips, futures[next_future].value)
    /\ next_future' = IF futures[next_future].value = {}
                      THEN Len(futures) + 1
                      ELSE next_future + 1
    /\ UNCHANGED <<args, dns, http, pc, domains_to_check, order, futures, queue,
                   ips, sites, stdout, stderr, exit_code>>

\* variant of GetIpsCollect: an empty result is reported as a warning
GetIpsCollectWarnEmpty ==
    /\ pc = "collect"
    /\ next_future <= Len(futures)
    /\ ResultReady(futures[next_future])
    /\ IF futures[next_future].raised \/ futures[next_future].value = {}
       THEN /\ stderr' = Append(stderr, Warning(futures[next_future].domain,
                                                futures[next_future].dns_server))
            /\ UNCHANGED all_ips
       ELSE /\ all_ips' = update(all_ips, futures[next_future].value)
            /\ UNCHANGED stderr
    /\ next_future' = next_future + 1
    /\ UNCHANGED <<args, dns, http, pc, domains_to_check, order, futures, queue,
                   ips, sites, stdout, exit_code>>

\* get_ips: one iteration of the loop over future_to_domain
GetIpsCollect ==
    /\ pc = "collect"
    /\ next_future <= Len(futures)
    /\ ResultReady(futures[next_future])
    /\ IF futures[next_future].raised
       THEN /\ stderr' = Append(stderr, Warning(futures[next_future].domain,
                                                futures[next_future].dns_server))
            /\ UNCHANGED all_ips
       ELSE /\ all_ips' = update(all_ips, futures[next_future].value)
            /\ UNCHANGED stderr
    /\ next_future' = next_future + 1
    /\ UNCHANGED <<args, dns, http, pc, domains_to_check, order, futures, queue,
                   ips, sites, stdout, exit_code>>

NoIpsError ==
    [text |-> "Error: No IPs resolved for any site. Check domain names or network connectivity."]

\* variant of GetIpsFinish: the empty check sits inside the collecting loop
GetIpsFinishInLoop ==
    /\ pc = "collect"
    /\ next_future > 1
    /\ IF all_ips = {}
       THEN /\ stderr' = Append(stderr, NoIpsError)
            /\ exit_code' = 1
            /\ pc' = "exited"
            /\ UNCHANGED ips
       ELSE /\ next_future > Len(futures)
            /\ \A i \in 1..Len(futures) : futures[i].state = "FINISHED"
            /\ ips' = all_ips
            /\ pc' = "print_ips"
            /\ UNCHANGED <<stderr, exit_code>>
    /\ UNCHANGED <<args, dns, http, domains_to_check, order, futures, queue,
                   next_future, all_ips, sites, stdout>>

\* variant of GetIpsFinish: the empty check is left out
GetIpsFinishNoCheck ==
    /\ pc = "collect"
    /\ next_future > Len(futures)
    /\ \A i \in 1..Len(futures) : futures[i].state = "FINISHED"
    /\ ips' = all_ips
    /\ pc' = "print_ips"
    /\ UNCHANGED <<args, dns, http, domains_to_check, order, futures, queue,
                   next_future, all_ips, sites, stdout, stderr, exit_code>>

\* get_ips: the with block ends (executor.shutdown(wait=True) returns once no
\* task is queued or running); then the empty check, sys.exit(1) or return
GetIpsFinish ==
    /\ pc = "collect"
    /\ next_future > Len(futures)
    /\ \A i \in 1..Len(futures) : futures[i].state = "FINISHED"
    /\ IF all_ips = {}
       THEN /\ stderr' = Append(stderr, NoIpsError)
            /\ exit_code' = 1
            /\ pc' = "exited"
            /\ UNCHANGED ips
       ELSE /\ ips' = all_ips
            /\ pc' = "print_ips"
            /\ UNCHANGED <<stderr, exit_code>>
    /\ UNCHANGED <<args, dns, http, domains_to_check, order, futures, queue,
                   next_future, all_ips, sites, stdout>>

\* main: print(" ".join(sorted(ips))), then the interpreter exits normally
MainPrintIps ==
    /\ pc = "print_ips"
    /\ stdout' = Append(stdout, join(<<" ">>, sorted(ips)))
    /\ exit_code' = 0
    /\ pc' = "exited"
    /\ UNCHANGED <<args, dns, http, domains_to_check, order, futures, queue,
                   next_future, all_ips, ips, sites, stderr>>

(***************************************************************************)
(* fetch_blocklist and main, fetch-blocklist branch                        *)
(***************************************************************************)
\* variant of Hostnames: a sentinel line without a second token is skipped
RECURSIVE HostnamesSkipShort(_)
HostnamesSkipShort(lines) ==
    IF lines = <<>> THEN Returned(<<>>)
    ELSE IF startswith(Head(lines), SENTINEL) /\ Len(split(Head(lines))) >= 2
         THEN Returned(<<split(Head(lines))[2]>> \o HostnamesSkipShort(Tail(lines)).value)
    ELSE HostnamesSkipShort(Tail(lines))

\* variant of Hostnames: line.split()[0]
RECURSIVE HostnamesFirstToken(_)
HostnamesFirstToken(lines) ==
    IF lines = <<>> THEN Returned(<<>>)
    ELSE IF startswith(Head(lines), SENTINEL)
         THEN LET rest == HostnamesFirstToken(Tail(lines))
              IN  IF rest.raised THEN rest
                  ELSE Returned(<<split(Head(lines))[1]>> \o rest.value)
    ELSE HostnamesFirstToken(Tail(lines))

\* the list comprehension over response.text.splitlines(): line.split()[1] of
\* the lines that start with the sentinel; an IndexError ends it
RECURSIVE Hostnames(_)
Hostnames(lines) ==
    IF lines = <<>> THEN Returned(<<>>)
    ELSE IF startswith(Head(lines), SENTINEL)
         THEN IF Len(split(Head(lines))) < 2
              THEN [raised |-> TRUE, value |-> <<>>]
              ELSE LET rest == Hostnames(Tail(lines))
                   IN  IF rest.raised THEN rest
                       ELSE Returned(<<split(Head(lines))[2]>> \o rest.value)
    ELSE Hostnames(Tail(lines))

FetchError(url) == [text |-> "Error fetching blocklist from", url |-> url]

\* variant of fetch_blocklist without the try
fetch_blocklist_unguarded(url) ==
    IF http.error # None
    THEN [raised |-> TRUE, value |-> <<>>, stderr |-> <<>>]
    ELSE LET parsed == Hostnames(splitlines(http.text))
         IN  [raised |-> parsed.raised, value |-> parsed.value, stderr |-> <<>>]

\* fetch_blocklist(url): the returned list and what it printed to stderr
\* (raised: an exception leaves the function)
fetch_blocklist(url) ==
    IF http.error # None
    THEN [raised |-> FALSE, value |-> <<>>, stderr |-> <<FetchError(url)>>]
    ELSE LET parsed == Hostnames(splitlines(http.text))
         IN  IF parsed.raised
             THEN [raised |-> FALSE, value |-> <<>>, stderr |-> <<FetchError(url)>>]
             ELSE [raised |-> FALSE, value |-> parsed.value, stderr |-> <<>>]

\* what the interpreter prints when an exception leaves main
Traceback == [text |-> "Traceback (most recent call last)"]

\* main: args.get_ips is not given, args.list is: fetch_blocklist is called
MainList ==
    /\ pc = "main"
    /\ args.get_ips = None
    /\ args.list # None
    /\ LET r == fetch_blocklist(BLOCKLIST_URLS[args.list])
       IN  IF r.raised
           THEN /\ stderr' = Append(stderr \o r.stderr, Traceback)
                /\ exit_code' = 1
                /\ pc' = "exited"
                /\ UNCHANGED sites
           ELSE /\ sites' = r.value
                /\ stderr' = stderr \o r.stderr
                /\ pc' = "print_sites"
                /\ UNCHANGED exit_code
    /\ UNCHANGED <<args, dns, http, domains_to_check, order, futures, queue,
                   next_future, all_ips, ips, stdout>>

\* variant of MainPrintSites: an empty list is printed like any other
MainPrintSitesAlways ==
    /\ pc = "print_sites"
    /\ stdout' = Append(stdout, join(<<"\n">>, sites))
    /\ exit_code' = 0
    /\ pc' = "exited"
    /\ UNCHANGED <<args, dns, http, domains_to_check, order, futures, queue,
                   next_future, all_ips, ips, sites, stderr>>

\* main: print the hostnames one per line, or sys.exit(1) when there is none
MainPrintSites ==
    /\ pc = "print_sites"
    /\ IF sites # <<>>
       THEN /\ stdout' = Append(stdout, join(<<"\n">>, sites))
            /\ exit_code' = 0
       ELSE /\ exit_code' = 1
            /\ UNCHANGED stdout
    /\ pc' = "exited"
    /\ UNCHANGED <<args, dns, http, domains_to_check, order, futures, queue,
                   next_future, all_ips, ips, sites, stderr>>

Usage == <<"u", "s", "a", "g", "e">>

\* variant of MainHelp: the help is printed and main returns normally
MainHelpNoExit ==
    /\ pc = "main"
    /\ args.get_ips = None
    /\ args.list = None
    /\ stdout' = Append(stdout, Usage)
    /\ exit_code' = 0
    /\ pc' = "exited"
    /\ UNCHANGED <<args, dns, http, domains_to_check, order, futures, queue,
                   next_future, all_ips, ips, sites, stderr>>

\* main: neither option is given: parser.print_help() and sys.exit(1)
MainHelp ==
    /\ pc = "main"
    /\ args.get_ips = None
    /\ args.list = None
    /\ stdout' = Append(stdout, Usage)
    /\ exit_code' = 1
    /\ pc' = "exited"
    /\ UNCHANGED <<args, dns, http, domains_to_check, order, futures, queue,
                   next_future, all_ips, ips, sites, stderr>>

(***************************************************************************)
(* The domain expansion of get_ips on its own, with all of common_prefixes *)
(***************************************************************************)
ExpandStep ==
    /\ pc = "expand"
    /\ domains_to_check' = Expand(args.get_ips, common_prefixes)
    /\ pc' = "expanded"
    /\ UNCHANGED <<args, dns, http, order, futures, queue, next_future,
                   all_ips, ips, sites, stdout, stderr, exit_code>>

InitExpand ==
    /\ \E s \in SeqsUpTo(BaseDomains, MaxSites) \ {<<>>} :
          args = [get_ips |-> s, list |-> None]
    /\ dns = <<>>
    /\ http = NoHttp
    /\ InitLocals

NextExpand == MainGetIps \/ ExpandStep

SpecExpand == InitExpand /\ [][NextExpand]_vars

Next ==
    \/ MainGetIps
    \/ MainList
    \/ MainPrintSites
    \/ MainHelp
    \/ GetIpsExpand
    \/ GetIpsSubmit
    \/ GetIpsSubmitted
    \/ WorkerStart
    \/ \E i \in 1..Len(futures) : WorkerFinish(i)
    \/ GetIpsCollect
    \/ GetIpsFinish
    \/ MainPrintIps

Spec == Init /\ [][Next]_vars

(***************************************************************************)
(* The resolve-ips run under fair scheduling: the main thread runs while   *)
(* it is not blocked, an idle pool thread takes queued work, and every     *)
(* started probe finishes (with its answer, a failure or the resolver's    *)
(* timeout).                                                               *)
(***************************************************************************)
\* for termination a query fails, yields nothing or yields an address
FairOutcomes == {Raises, Answer({}), Answer({IP_A})}

InitFair ==
    /\ \E s \in ArgSites : args = [get_ips |-> s, list |-> None]
    /\ dns \in [Probes(args.get_ips) -> FairOutcomes]
    /\ http = NoHttp
    /\ InitLocals

NextGetIps ==
    \/ MainGetIps
    \/ GetIpsExpand
    \/ GetIpsSubmit
    \/ GetIpsSubmitted
    \/ WorkerStart
    \/ \E i \in 1..Len(futures) : WorkerFinish(i)
    \/ GetIpsCollect
    \/ GetIpsFinish
    \/ MainPrintIps

SpecFair == InitFair /\ [][NextGetIps]_vars /\ WF_vars(NextGetIps)

(***************************************************************************)
(* Properties                                                              *)
(***************************************************************************)
GetIpsMode == args.get_ips # None
ListMode == args.get_ips = None /\ args.list # None

RangeOf(s) == {s[i] : i \in 1..Len(s)}

\* the addresses a DNS query yields: none when it raises
AddressesOf(outcome) == IF outcome.raises THEN {} ELSE outcome.addresses

\* union of what all (expanded domain, DNS server) queries yield
UnionOfProbes == UNION {AddressesOf(dns[p]) : p \in DOMAIN dns}

ProbeOf(future) == <<future.domain, future.dns_server>>

\* C1: when at least one probe yields a non-empty set, get_ips does not end
\* in the no-results exit and the set it returns is non-empty and is exactly
\* the union of the sets of all (expanded domain, DNS server) probes.
C1_ExactUnion ==
    (GetIpsMode /\ UnionOfProbes # {}) =>
        /\ pc \in {"print_ips", "exited"} => (ips = UnionOfProbes /\ ips # {})
        /\ pc = "exited" => exit_code = 0

C1_Witness ==
    /\ pc = "print_ips"
    /\ ips = {IP_A, IP_B, IP_C}
    /\ \E p \in DOMAIN dns : dns[p].raises
    /\ \E p \in DOMAIN dns : dns[p] = Answer({})

\* C2: when every probe fails or yields the empty set, the resolve-ips run
\* prints nothing to standard output, never reaches the printing of the IP
\* line, and ends with the no-results diagnostic on standard error and exit
\* status 1.
C2_NoResults ==
    (GetIpsMode /\ UnionOfProbes = {}) =>
        /\ stdout = <<>>
        /\ pc # "print_ips"
        /\ pc = "exited" => (exit_code = 1 /\ NoIpsError \in RangeOf(stderr))

C2_Witness ==
    /\ GetIpsMode
    /\ pc = "exited"
    /\ exit_code = 1
    /\ stderr = <<NoIpsError>>
    /\ \E p \in DOMAIN dns : dns[p].raises
    /\ \E p \in DOMAIN dns : dns[p] = Answer({})

\* a run of the probes one after the other, in one fixed order, on one thread
RECURSIVE SequentialRun(_, _)
SequentialRun(probes, acc) ==
    IF probes = {} THEN acc
    ELSE LET p == CHOOSE q \in probes : TRUE
         IN  SequentialRun(probes \ {p}, acc \cup resolve_domain(p[1], p[2]).value)

\* C3: whatever the order in which the pool starts and completes the probe
\* tasks, the shared set after each collected future, and the set get_ips
\* returns, are those of a sequential run of the same probes with the same
\* outcomes.
C3_OrderIndependent ==
    GetIpsMode =>
        /\ pc = "collect" =>
              all_ips = SequentialRun({ProbeOf(futures[i]) : i \in 1..(next_future - 1)}, {})
        /\ pc = "print_ips" => ips = SequentialRun(DOMAIN dns, {})
        /\ (pc = "exited" /\ exit_code = 1) => SequentialRun(DOMAIN dns, {}) = {}

\* a later task has completed before an earlier one, and collection goes on
C3_Witness ==
    /\ pc = "collect"
    /\ next_future = 3
    /\ all_ips # {}
    /\ futures[3].state = "RUNNING"
    /\ futures[4].state = "FINISHED"
    /\ futures[4].value # {}

\* C4: a failed probe cancels or skips nothing: when get_ips ends, a task
\* has been submitted for every probe, every task has run to completion, and
\* the addresses of every probe that did not fail are in the shared set.
C4_NoFailFast ==
    (GetIpsMode /\ pc \in {"print_ips", "exited"}) =>
        /\ {ProbeOf(futures[i]) : i \in 1..Len(futures)} = DOMAIN dns
        /\ \A i \in 1..Len(futures) :
              /\ futures[i].state = "FINISHED"
              /\ AddressesOf(dns[ProbeOf(futures[i])]) \subseteq all_ips

C4_Witness ==
    /\ pc = "print_ips"
    /\ dns[ProbeOf(futures[1])].raises
    /\ dns[ProbeOf(futures[3])].raises
    /\ futures[2].value = {IP_A}
    /\ futures[4].value = {IP_B, IP_C}
    /\ all_ips = {IP_A, IP_B, IP_C}

RECURSIVE FieldsFrom(_, _, _, _)
FieldsFrom(line, sep, cur, out) ==
    IF line = <<>> THEN Append(out, cur)
    ELSE IF Head(line) = sep THEN FieldsFrom(Tail(line), sep, <<>>, Append(out, cur))
    ELSE FieldsFrom(Tail(line), sep, Append(cur, Head(line)), out)

Fields(line, sep) == FieldsFrom(line, sep, <<>>, <<>>)

\* a before b in the order of Python strings
RECURSIVE LexBefore(_, _)
LexBefore(a, b) ==
    IF b = <<>> THEN FALSE
    ELSE IF a = <<>> THEN TRUE
    ELSE IF Head(a) # Head(b) THEN Ord(Head(a)) < Ord(Head(b))
    ELSE LexBefore(Tail(a), Tail(b))

\* C7: the resolve-ips run prints one line; its space-separated fields are in
\* strictly ascending string order (so none appears twice) and are exactly
\* the addresses of the set get_ips returned.
C7_SortedLine ==
    (GetIpsMode /\ stdout # <<>>) =>
        /\ Len(stdout) = 1
        /\ LET fields == Fields(stdout[1], " ")
           IN  /\ \A i, j \in 1..Len(fields) : i < j => LexBefore(fields[i], fields[j])
               /\ RangeOf(fields) = ips
        /\ ips = all_ips

C7_Witness ==
    /\ GetIpsMode
    /\ pc = "exited"
    /\ stdout = << IP_B \o <<" ">> \o IP_C \o <<" ">> \o IP_A >>

\* C8: the expanded set is exactly every base domain plus prefix + "." + base
\* for every base domain and every configured prefix.
C8_ExpandedSet ==
    pc = "expanded" =>
        domains_to_check =
            {args.get_ips[i] : i \in 1..Len(args.get_ips)}
                \cup {common_prefixes[j] \o "." \o args.get_ips[i] :
                        i \in 1..Len(args.get_ips), j \in 1..Len(common_prefixes)}

\* www.a.com arises from both base domains and is one entry
C8_Witness ==
    /\ pc = "expanded"
    /\ args.get_ips = <<"a.com", "www.a.com">>
    /\ Cardinality(domains_to_check) = 9
    /\ "www.www.a.com" \in domains_to_check

BlocklistLines == splitlines(http.text)
BeginsWithSentinel(line) == Len(line) >= Len(SENTINEL) /\ \A i \in 1..Len(SENTINEL) : line[i] = SENTINEL[i]
HasHostname(line) == Len(split(line)) >= 2
SentinelLines == SelectSeq(BlocklistLines, BeginsWithSentinel)
SecondTokens(lines) == [i \in 1..Len(lines) |-> split(lines[i])[2]]

\* C9 as claimed: after a successful download, the parser's result is, in
\* input order, the hostname of each line that begins with the sentinel (of
\* each that carries one).
C9_ExtractsEverySentinelLine ==
    (ListMode /\ http.error = None /\ pc \in {"print_sites", "exited"}) =>
        sites = SecondTokens(SelectSeq(SentinelLines, HasHostname))

\* C9: after a successful download in which every line that begins with the
\* sentinel carries a second token, the parser's result is, in input order,
\* the second token of exactly those lines; if some such line carries no
\* second token, the result is empty.
C9_ExtractsOrNothing ==
    (ListMode /\ http.error = None /\ pc \in {"print_sites", "exited"}) =>
        IF \A i \in 1..Len(SentinelLines) : HasHostname(SentinelLines[i])
        THEN sites = SecondTokens(SentinelLines)
        ELSE sites = <<>>

C9_Witness ==
    /\ ListMode
    /\ pc = "print_sites"
    /\ Len(BlocklistLines) = 3
    /\ BlocklistLines[2] = <<"#", " ", "c">>
    /\ sites = <<HOST_A, HOST_B>>

\* C10: when the download or its status check fails, the fetch-blocklist run
\* prints nothing to standard output, writes the fetch diagnostic and no
\* traceback to standard error, and exits with status 1.
C10_FetchFailure ==
    (ListMode /\ http.error # None) =>
        /\ stdout = <<>>
        /\ Traceback \notin RangeOf(stderr)
        /\ pc # "main" => stderr = <<FetchError(BLOCKLIST_URLS[args.list])>>
        /\ pc = "exited" => exit_code = 1

C10_Witness ==
    /\ ListMode
    /\ pc = "exited"
    /\ http.error = "HTTPError"
    /\ exit_code = 1
    /\ stderr = <<FetchError(BLOCKLIST_URLS.peterlowe)>>

\* C11: a run with neither option never enters get_ips or fetch_blocklist (no
\* probe task is ever submitted, nothing is downloaded or parsed); it prints
\* the usage help and nothing else, and exits with status 1.
C11_HelpAndExit ==
    (args.get_ips = None /\ args.list = None) =>
        /\ pc \in {"main", "exited"}
        /\ futures = <<>> /\ queue = <<>> /\ domains_to_check = {}
        /\ sites = <<>> /\ stderr = <<>>
        /\ pc = "main" => stdout = <<>>
        /\ pc = "exited" => (stdout = <<Usage>> /\ exit_code = 1)

C11_Witness ==
    /\ args.get_ips = None
    /\ args.list = None
    /\ pc = "exited"
    /\ stdout = <<Usage>>
    /\ exit_code = 1

\* C12: get_ips has signalled the no-results failure or returned only in
\* states where a task was submitted for every probe, no task is queued or
\* running, and every future has been collected.
C12_CheckAfterAllTasks ==
    (GetIpsMode /\ (pc \in {"print_ips", "exited"} \/ NoIpsError \in RangeOf(stderr))) =>
        /\ Len(futures) = Cardinality(DOMAIN dns)
        /\ queue = <<>>
        /\ \A i \in 1..Len(futures) : futures[i].state = "FINISHED"
        /\ next_future = Len(futures) + 1

\* the no-results failure, signalled after the last of the futures
C12_Witness ==
    /\ GetIpsMode
    /\ pc = "exited"
    /\ NoIpsError \in RangeOf(stderr)
    /\ Len(futures) = Len(PUBLIC_DNS) * Cardinality(domains_to_check)
    /\ next_future = Len(futures) + 1

\* the cross product of the expanded domains and the DNS servers
CrossProduct == domains_to_check \X RangeOf(PUBLIC_DNS)

\* one future per pair; the queue holds each not yet started future once
OneTaskPerPair ==
    GetIpsMode =>
        /\ \A i, j \in 1..Len(futures) :
              i # j => ProbeOf(futures[i]) # ProbeOf(futures[j])
        /\ {ProbeOf(futures[i]) : i \in 1..Len(futures)} \subseteq CrossProduct
        /\ pc \in {"collect", "print_ips", "exited"} =>
              {ProbeOf(futures[i]) : i \in 1..Len(futures)} = CrossProduct
        /\ \A m, n \in 1..Len(queue) : m # n => queue[m] # queue[n]
        /\ RangeOf(queue) = {i \in 1..Len(futures) : futures[i].state = "PENDING"}
        /\ pc \in {"print_ips", "exited"} =>
              \A i \in 1..Len(futures) : futures[i].state = "FINISHED"

\* a task is started once and finished once: a future is never dropped or
\* re-targeted, a running task is never queued again, a finished future never
\* changes
RunsOnce ==
    /\ Len(futures') >= Len(futures)
    /\ \A i \in 1..Len(futures) :
          /\ ProbeOf(futures'[i]) = ProbeOf(futures[i])
          /\ futures[i].state = "RUNNING" => futures'[i].state \in {"RUNNING", "FINISHED"}
          /\ futures[i].state = "FINISHED" => futures'[i] = futures[i]

\* C13: exactly one probe task exists for every pair of the cross product of
\* expanded domains and DNS servers, and each task is executed exactly once:
\* none is skipped, none runs twice, and a failed probe is never retried.
C13_OneTaskRunOnce == []OneTaskPerPair /\ [][RunsOnce]_vars

\* the run has ended; the first probe failed and was not run again
C13_Witness ==
    /\ GetIpsMode
    /\ pc = "exited"
    /\ Len(futures) = Cardinality(CrossProduct)
    /\ dns[ProbeOf(futures[1])].raises
    /\ futures[1].state = "FINISHED"
    /\ futures[1].value = {}

\* the tasks a pool thread is executing
Executing == {i \in 1..Len(futures) : futures[i].state \notin {"PENDING", "FINISHED"}}

\* C14: in every state at most max_workers probe tasks are executing, however
\* many have been submitted; the other unfinished tasks are in the queue.
C14_BoundedParallelism ==
    /\ Cardinality(Executing) <= max_workers
    /\ \A i \in 1..Len(futures) :
          futures[i].state = "PENDING" => i \in RangeOf(queue)

\* the pool is full and tasks are waiting
C14_Witness ==
    /\ Cardinality(Executing) = max_workers
    /\ queue # <<>>
    /\ Len(futures) > max_workers

\* the shared set holds exactly what the collected futures hold, and a
\* finished future holds exactly what its probe's query yielded
NoResultLost ==
    GetIpsMode =>
        /\ \A i \in 1..Len(futures) :
              futures[i].state = "FINISHED" =>
                  futures[i].value = AddressesOf(dns[ProbeOf(futures[i])])
        /\ pc \in {"collect", "print_ips", "exited"} =>
              all_ips = UNION {futures[i].value : i \in 1..(next_future - 1)}

\* a step changes at most one future; a step that changes a future (a pool
\* thread's) leaves the shared set alone; the shared set changes only by the
\* collecting loop of the main thread merging the future it is at
SingleWriter ==
    /\ Cardinality({i \in 1..Len(futures) : futures'[i] # futures[i]}) <= 1
    /\ futures' # futures => all_ips' = all_ips
    /\ all_ips' # all_ips =>
          /\ pc = "collect" /\ pc' = "collect"
          /\ next_future' = next_future + 1
          /\ futures[next_future].state = "FINISHED"
          /\ all_ips' = all_ips \cup futures[next_future].value

\* C15: under every interleaving no probe result is lost or altered, a pool
\* thread writes only its own result, and the shared set is written by the
\* main thread alone, one collected future at a time.
C15_NoLostResult == []NoResultLost /\ [][SingleWriter]_vars

\* the main thread has merged a result while the pool is fully busy
C15_Witness ==
    /\ pc = "collect"
    /\ next_future = 2
    /\ all_ips = {IP_B, IP_C}
    /\ Cardinality(Running) = max_workers

\* the resolve-ips run has ended, by its IP line or by the no-results failure,
\* with every task run and collected
GetIpsEnded ==
    /\ pc = "exited"
    /\ \A i \in 1..Len(futures) : futures[i].state = "FINISHED"
    /\ next_future = Len(futures) + 1
    /\ \/ exit_code = 0 /\ Len(stdout) = 1 /\ stderr = <<>>
       \/ exit_code = 1 /\ stdout = <<>> /\ NoIpsError \in RangeOf(stderr)

\* C16: with fair scheduling of the main thread and the pool threads, and
\* every started probe finishing, every resolve-ips run terminates: it prints
\* the IP line or signals the no-results failure, all tasks run and collected,
\* whichever probes fail.
C16_Terminates == GetIpsMode ~> GetIpsEnded

\* a run that ended although the probes of one server all failed
C16_Witness ==
    /\ GetIpsMode
    /\ GetIpsEnded
    /\ exit_code = 0
    /\ \A p \in DOMAIN dns : p[2] = PUBLIC_DNS[1] => dns[p].raises

\* C17: a fetch-blocklist run exits with status 0 exactly when at least one
\* hostname was extracted, and then prints the hostnames; otherwise it prints
\* nothing and exits with status 1, also after a successful download without
\* any line that begins with the sentinel.
C17_ExitStatus ==
    (ListMode /\ pc = "exited") =>
        /\ exit_code \in {0, 1}
        /\ (exit_code = 0) <=> (sites # <<>>)
        /\ sites # <<>> => stdout = <<join(<<"\n">>, sites)>>
        /\ sites = <<>> => stdout = <<>>
        /\ (http.error = None /\ SentinelLines = <<>>) =>
              (exit_code = 1 /\ stdout = <<>> /\ stderr = <<>>)

\* a download that succeeded, three lines, none with the sentinel: exit 1
C17_Witness ==
    /\ ListMode
    /\ pc = "exited"
    /\ http.error = None
    /\ Len(BlocklistLines) = 3
    /\ SentinelLines = <<>>
    /\ exit_code = 1
    /\ stdout = <<>>

\* C18: fetch_blocklist returns either one hostname for every line that begins
\* with the sentinel, each that line's second token, or the empty list; when a
\* line that begins with the sentinel has no second token it returns the empty
\* list, with the fetch diagnostic on standard error, whatever was parsed
\* before.
C18_AllOrNothing ==
    (ListMode /\ pc \in {"print_sites", "exited"}) =>
        /\ Len(sites) \in {0, Len(SentinelLines)}
        /\ \A k \in 1..Len(sites) :
              /\ HasHostname(SentinelLines[k])
              /\ sites[k] = split(SentinelLines[k])[2]
        /\ (\E k \in 1..Len(SentinelLines) : ~HasHostname(SentinelLines[k])) =>
              /\ sites = <<>>
              /\ stderr = <<FetchError(BLOCKLIST_URLS[args.list])>>

\* two good sentinel lines, then one without a hostname: nothing is returned
C18_Witness ==
    /\ ListMode
    /\ pc = "exited"
    /\ http.error = None
    /\ Len(SentinelLines) = 3
    /\ HasHostname(SentinelLines[1])
    /\ HasHostname(SentinelLines[2])
    /\ SentinelLines[3] = SENTINEL
    /\ sites = <<>>
    /\ exit_code = 1

====
